---- MODULE Spec2Model ----
(***************************************************************************)
(* HoudiniSessionCollector (hooks/tk-multi-publish2/basic/collector.py).   *)
(*                                                                         *)
(* One collector instance is called repeatedly through                     *)
(* process_current_session.  The host application (hou), the engine's      *)
(* apps, the file system and the base class are the environment: every    *)
(* answer they give is drawn with \E at the step that asks for it.         *)
(* Every call receives a parent_item without children.  Of the tree the    *)
(* call builds under it, `items` holds the part the routine entered last   *)
(* has created, and `created` counts, per creating routine, every item of  *)
(* the tree.  `trace` is the sequence of calls that routine has made on    *)
(* its environment (accessors, os.path.exists, _collect_file, the logger). *)
(***************************************************************************)
EXTENDS Integers, Sequences, FiniteSets, TLC

\* ------------------------------------------------------------------ bounds
\* calls of process_current_session on one collector instance
MaxCalls == 2
\* nodes the node lists hand out over the life of the instance, all lists together
MaxSceneNodes == 2
\* output paths the RenderMan / Karma nodes return, all nodes together
MaxPaths == 2
\* separate-file AOV parameters of the Arnold nodes, all nodes together
MaxAovs == 2

VARIABLES
    pc,                 \* the routine process_current_session is in
    phase,              \* "start": routine not entered yet, "loop": in its node loop
    calls,              \* calls of process_current_session started so far
    items,              \* items created by the routine entered last; in
                        \* collect_node_outputs, for its current node type
    created,            \* items created in this call, per creating routine
    collected,          \* the six self._*_nodes_collected attributes
    defined,            \* TRUE once the six attributes exist on the instance
    nodes,              \* length of the node list the routine iterates
    idx,                \* position of the next node in that list
    typeIdx,            \* position in _HOUDINI_OUTPUTS of collect_node_outputs
    budget,             \* nodes the node lists may still hand out
    pathBudget,         \* output paths the render nodes may still return
    aovBudget,          \* AOV parameters the Arnold nodes may still have
    work_template,      \* local of the running routine
    publish_template,   \* local of the running routine (render_template)
    frame_range,        \* local of collect_tk_arnoldnodes
    started,            \* routines entered in this call, in order
    trace               \* environment calls of the routine entered last; in
                        \* collect_node_outputs, of its current node type

vars == <<pc, phase, calls, items, created, collected, defined, nodes, idx, typeIdx,
          budget, pathBudget, aovBudget, work_template, publish_template, frame_range, started, trace>>

\* ------------------------------------------------------------ program data
\* process_current_session calls the routines in this order
Routines == <<"alembic", "fbx", "mantra", "arnold", "renderman", "karma",
              "cache", "usdrop", "outputs">>

\* the instance attributes reset by process_current_session
Flagged == {"alembic", "fbx", "mantra", "arnold", "renderman", "karma"}

\* _HOUDINI_OUTPUTS[hou.ropNodeTypeCategory()], in insertion order
HOUDINI_OUTPUTS == <<"alembic", "fbx", "comp", "ifd", "opengl", "wren">>

\* who creates items: the session routine, the toolkit routines, the AOV
\* routine, and collect_node_outputs per node type
CreatorSeq == <<"session", "alembic", "fbx", "mantra", "arnold", "arnold_aov",
                "renderman", "karma", "cache", "usdrop",
                "rop_alembic", "rop_fbx", "rop_comp", "rop_ifd", "rop_opengl",
                "rop_wren">>
Creators == { CreatorSeq[k] : k \in DOMAIN CreatorSeq }

\* ------------------------------------------------------- environment values
NoPath == <<>>
\* what get_output_paths may hold for a RenderMan / Karma node: a path is a
\* sequence of parts
RenderPaths == { <<"beauty", "$F4", "exr">>, <<"stats", "xml">> }
\* a template object, or None
Templates == {"None", "tmpl"}
\* app.get_output_range(node) of the node at position k of the node list
OutputRange(k) == <<k, k + 1>>
\* hou.playbar.playbackRange()
PlaybackRange == <<1001, 1002>>
AovLabels == {"diffuse", "specular"}

\* ------------------------------------------------------------ pure helpers
Digit == <<"0", "1", "2", "3", "4", "5", "6", "7", "8", "9">>

RECURSIVE Str(_)
\* str(k) of a natural number
Str(k) == IF k < 10 THEN Digit[k + 1]
          ELSE Str(k \div 10) \o Digit[(k % 10) + 1]

RECURSIVE ZeroPad(_, _)
ZeroPad(s, w) == IF Len(s) >= w THEN s ELSE ZeroPad("0" \o s, w)

\* f"{first_frame:04}"
Format04(k) == ZeroPad(Str(k), 4)

\* output_path.replace(old, new) on the parts of a path
Replace(path, old, new) ==
    [k \in DOMAIN path |-> IF path[k] = old THEN new ELSE path[k]]

\* output_path.endswith(".xml")
EndsWithXml(path) == Len(path) > 0 /\ path[Len(path)] = "xml"

\* get_output_path(node) / node.parm(path_parm_name).eval(): the output path
\* of the node at position k of a node list
OutPath(k) == <<"out" \o Str(k), "$F4", "exr">>

\* the position after r in process_current_session
Successor(r) ==
    IF r = "outputs" THEN "returned"
    ELSE LET k == CHOOSE j \in DOMAIN Routines : Routines[j] = r
         IN  Routines[k + 1]

\* one call on the environment: the operation, the node it is about (for the
\* node-list query: how many nodes it answered), the path, and the answer
Ev(op, node, path, ok) == [op |-> op, node |-> node, path |-> path, ok |-> ok]
Log(level) == Ev("logger." \o level, 0, NoPath, TRUE)

\* super()._collect_file(parent_item, path, ...): a new child of parent;
\* items are numbered in the order the call creates them
CollectFile(id, parent, by, node, path) ==
    [id |-> id, type |-> "file", by |-> by, parent |-> parent, node |-> node,
     label |-> "", path |-> path, props |-> <<>>]

\* item.properties[key] = value
SetProp(item, key, value) ==
    [item EXCEPT !.props = (key :> value) @@ item.props]

\* the parent_item handed to process_current_session
RootItem == 0
\* the session item is the first item created in a call
SessionItem == 1

RECURSIVE CountUpTo(_, _)
CountUpTo(made, k) ==
    IF k = 0 THEN 0 ELSE CountUpTo(made, k - 1) + made[CreatorSeq[k]]

\* the number the next item of the call gets
NextId == CountUpTo(created, Len(CreatorSeq)) + 1

\* `created` after routine `by` has created k more items
Made(by, k) == [created EXCEPT ![by] = @ + k]

\* ----------------------------------------------------------- control flow
\* the running routine returns to process_current_session
Return(r) ==
    /\ pc' = Successor(r)
    /\ phase' = "start"
    /\ nodes' = 0
    /\ idx' = 0
    /\ work_template' = "None"
    /\ publish_template' = "None"
    /\ frame_range' = <<0, 0>>

\* an exception leaves the running routine and process_current_session
Raise ==
    /\ pc' = "raised"
    /\ phase' = "start"
    /\ nodes' = 0
    /\ idx' = 0
    /\ work_template' = "None"
    /\ publish_template' = "None"
    /\ frame_range' = <<0, 0>>

\* the routine goes on with its node loop over n nodes
EnterLoop(r, n, wt, pt, fr) ==
    /\ pc' = r
    /\ phase' = "loop"
    /\ nodes' = n
    /\ idx' = 1
    /\ work_template' = wt
    /\ publish_template' = pt
    /\ frame_range' = fr

\* NextNode that stays at the node it is at
NextNode_SameNode(r) ==
    IF idx <= nodes
    THEN /\ idx' = idx
         /\ UNCHANGED <<pc, phase, nodes, work_template, publish_template,
                        frame_range>>
    ELSE Return(r)

\* the node loop moves to its next node, or the routine returns after the last
NextNode(r) ==
    IF idx < nodes
    THEN /\ idx' = idx + 1
         /\ UNCHANGED <<pc, phase, nodes, work_template, publish_template,
                        frame_range>>
    ELSE Return(r)

\* ------------------------------------------------------------------- Init
Init ==
    /\ pc = "idle"
    /\ phase = "start"
    /\ calls = 0
    /\ items = <<>>
    /\ created = [c \in Creators |-> 0]
    /\ collected = [f \in Flagged |-> FALSE]
    /\ defined = FALSE
    /\ nodes = 0
    /\ idx = 0
    /\ typeIdx = 0
    /\ budget = MaxSceneNodes
    /\ pathBudget = MaxPaths
    /\ aovBudget = MaxAovs
    /\ work_template = "None"
    /\ publish_template = "None"
    /\ frame_range = <<0, 0>>
    /\ started = <<>>
    /\ trace = <<>>

\* ------------------------------------------------ process_current_session
\* collect_current_houdini_session that creates the item only for a session
\* with a file path
collect_current_houdini_session_SavedOnly ==
    /\ pc \in {"idle", "returned", "raised"}
    /\ calls < MaxCalls
    /\ \E hasPath \in BOOLEAN :
         LET session == [id |-> SessionItem, type |-> "houdini.session",
                         by |-> "session", parent |-> RootItem, node |-> 0,
                         label |-> "", path |-> NoPath, props |-> <<>>]
         IN  /\ items' = IF hasPath THEN <<session>> ELSE <<>>
             /\ created' = [c \in Creators |->
                               IF c = "session" /\ hasPath THEN 1 ELSE 0]
             /\ trace' = << Ev("hipFile.path", 0, NoPath, hasPath) >>
    /\ pc' = "reset"
    /\ calls' = calls + 1
    /\ started' = <<>>
    /\ typeIdx' = 0
    /\ UNCHANGED <<phase, collected, defined, nodes, idx, budget, pathBudget,
                   aovBudget, work_template, publish_template, frame_range>>

\* line 83: item = self.collect_current_houdini_session(settings, parent_item)
collect_current_houdini_session ==
    /\ pc \in {"idle", "returned", "raised"}
    /\ calls < MaxCalls
    /\ \E hasPath \in BOOLEAN, setting \in {"unset"} \cup Templates :
         LET session == [id |-> SessionItem, type |-> "houdini.session",
                         by |-> "session", parent |-> RootItem, node |-> 0,
                         label |-> "",
                         path |-> NoPath, props |-> <<>>]
         IN  /\ items' = << IF setting # "unset"
                            THEN SetProp(session, "work_template", setting)
                            ELSE session >>
             /\ trace' = << Ev("hipFile.path", 0, NoPath, hasPath),
                            Ev("create_item", 0, NoPath, TRUE) >>
                         \o (IF setting # "unset" THEN <<Log("debug")>> ELSE <<>>)
                         \o <<Log("info")>>
    /\ created' = [c \in Creators |-> IF c = "session" THEN 1 ELSE 0]
    /\ pc' = "reset"
    /\ calls' = calls + 1
    /\ started' = <<>>
    /\ typeIdx' = 0
    /\ UNCHANGED <<phase, collected, defined, nodes, idx, budget, pathBudget,
                   aovBudget, work_template,
                   publish_template, frame_range>>

\* ResetFlags that keeps the flags an earlier call has left
ResetFlags_OnlyOnce ==
    /\ pc = "reset"
    /\ collected' = IF defined THEN collected ELSE [f \in Flagged |-> FALSE]
    /\ defined' = TRUE
    /\ pc' = Routines[1]
    /\ UNCHANGED <<phase, calls, items, created, nodes, idx, typeIdx, budget,
                   pathBudget, aovBudget, work_template, publish_template,
                   frame_range, started, trace>>

\* lines 86-91: the six flags are set to False
ResetFlags ==
    /\ pc = "reset"
    /\ collected' = [f \in Flagged |-> FALSE]
    /\ defined' = TRUE
    /\ pc' = Routines[1]
    /\ UNCHANGED <<phase, calls, items, created, nodes, idx, typeIdx, budget,
                   pathBudget, aovBudget, work_template, publish_template, frame_range, started, trace>>

\* ------------------------------------------- alembic / fbx / mantra routines
\* the part of collect_tk_<r>nodes before its loop, for r in alembic, fbx, mantra
FlaggedStart(r) ==
    /\ pc = r
    /\ phase = "start"
    /\ started' = Append(started, r)
    /\ items' = <<>>
    /\ UNCHANGED <<calls, created, collected, defined, typeIdx, pathBudget,
                   aovBudget>>
    /\ \/ \* engine.apps.get(...) answers None
          /\ trace' = << Ev("apps.get", 0, NoPath, FALSE), Log("debug") >>
          /\ Return(r)
          /\ UNCHANGED budget
       \/ \* get_nodes() raises AttributeError
          /\ trace' = << Ev("apps.get", 0, NoPath, TRUE),
                         Ev("get_nodes", 0, NoPath, FALSE),
                         Log("warning") >>
          /\ Return(r)
          /\ UNCHANGED budget
       \/ \* get_nodes() answers n nodes, get_work_file_template() answers wt
          \E n \in 0..budget, wt \in Templates :
            /\ trace' = << Ev("apps.get", 0, NoPath, TRUE),
                           Ev("get_nodes", n, NoPath, TRUE),
                           Ev("get_work_file_template", 0, NoPath, TRUE) >>
            /\ budget' = budget - n
            /\ IF n = 0 THEN Return(r)
               ELSE EnterLoop(r, n, wt, "None", <<0, 0>>)

\* FlaggedNode that warns about a missing output, as the cache routine does
FlaggedNode_Warns(r) ==
    /\ pc = r
    /\ phase = "loop"
    /\ UNCHANGED <<calls, defined, typeIdx, budget, pathBudget, aovBudget,
                   started>>
    /\ LET out_path == OutPath(idx)
       IN  \/ /\ trace' = trace \o << Ev("get_output_path", idx, out_path, TRUE),
                                      Ev("exists", idx, out_path, FALSE),
                                      Log("warning") >>
              /\ UNCHANGED <<items, created, collected>>
           \/ LET item == CollectFile(NextId, SessionItem, r, idx, out_path)
              IN  /\ trace' = trace \o
                        << Ev("get_output_path", idx, out_path, TRUE),
                           Ev("exists", idx, out_path, TRUE),
                           Log("info"),
                           Ev("_collect_file", idx, out_path, TRUE) >>
                  /\ items' = Append(items,
                        IF work_template # "None"
                        THEN SetProp(item, "work_template", work_template)
                        ELSE item)
                  /\ created' = Made(r, 1)
                  /\ collected' = [collected EXCEPT ![r] = TRUE]
    /\ NextNode(r)

\* FlaggedNode that sets the flag for every node it looks at
FlaggedNode_FlagsEveryNode(r) ==
    /\ pc = r
    /\ phase = "loop"
    /\ UNCHANGED <<calls, defined, typeIdx, budget, pathBudget, aovBudget,
                   started>>
    /\ collected' = [collected EXCEPT ![r] = TRUE]
    /\ LET out_path == OutPath(idx)
       IN  \/ /\ trace' = trace \o << Ev("get_output_path", idx, out_path, TRUE),
                                      Ev("exists", idx, out_path, FALSE) >>
              /\ UNCHANGED <<items, created>>
           \/ LET item == CollectFile(NextId, SessionItem, r, idx, out_path)
              IN  /\ trace' = trace \o
                        << Ev("get_output_path", idx, out_path, TRUE),
                           Ev("exists", idx, out_path, TRUE),
                           Log("info"),
                           Ev("_collect_file", idx, out_path, TRUE) >>
                  /\ items' = Append(items,
                        IF work_template # "None"
                        THEN SetProp(item, "work_template", work_template)
                        ELSE item)
                  /\ created' = Made(r, 1)
    /\ NextNode(r)

\* FlaggedNode without the `continue` after a failed existence check
FlaggedNode_NoContinue(r) ==
    /\ pc = r
    /\ phase = "loop"
    /\ UNCHANGED <<calls, defined, typeIdx, budget, pathBudget, aovBudget,
                   started>>
    /\ \E exists \in BOOLEAN :
         LET out_path == OutPath(idx)
             item == CollectFile(NextId, SessionItem, r, idx, out_path)
         IN  /\ trace' = trace \o
                   << Ev("get_output_path", idx, out_path, TRUE),
                      Ev("exists", idx, out_path, exists),
                      Log("info"),
                      Ev("_collect_file", idx, out_path, TRUE) >>
             /\ items' = Append(items,
                   IF work_template # "None"
                   THEN SetProp(item, "work_template", work_template)
                   ELSE item)
             /\ created' = Made(r, 1)
             /\ collected' = [collected EXCEPT ![r] = TRUE]
    /\ NextNode(r)

\* one iteration of `for node in tk_<r>_nodes`, for r in alembic, fbx, mantra
FlaggedNode(r) ==
    /\ pc = r
    /\ phase = "loop"
    /\ UNCHANGED <<calls, defined, typeIdx, budget, pathBudget, aovBudget,
                   started>>
    /\ LET out_path == OutPath(idx)
       IN  \/ \* os.path.exists(out_path) is False
              /\ trace' = trace \o << Ev("get_output_path", idx, out_path, TRUE),
                                      Ev("exists", idx, out_path, FALSE) >>
              /\ UNCHANGED <<items, created, collected>>
           \/ \* os.path.exists(out_path) is True
              LET item == CollectFile(NextId, SessionItem, r, idx, out_path)
              IN  /\ trace' = trace \o
                        << Ev("get_output_path", idx, out_path, TRUE),
                           Ev("exists", idx, out_path, TRUE),
                           Log("info"),
                           Ev("_collect_file", idx, out_path, TRUE) >>
                  /\ items' = Append(items,
                        IF work_template # "None"
                        THEN SetProp(item, "work_template", work_template)
                        ELSE item)
                  /\ created' = Made(r, 1)
                  /\ collected' = [collected EXCEPT ![r] = TRUE]
    /\ NextNode(r)

\* lines 352-384 and 386-408
collect_tk_alembicnodes == FlaggedStart("alembic")
collect_tk_alembicnodes_loop == FlaggedNode("alembic")

\* lines 410-442 and 444-466
collect_tk_fbxnodes == FlaggedStart("fbx")
collect_tk_fbxnodes_loop == FlaggedNode("fbx")

\* lines 468-500 and 502-524
collect_tk_mantranodes == FlaggedStart("mantra")
collect_tk_mantranodes_loop == FlaggedNode("mantra")

\* --------------------------------------------------- cache / usdrop routines
\* collect_tk_cachenodes without the `return` after the debug message: the
\* query on the missing app raises AttributeError, which the routine catches
collect_tk_cachenodes_NoReturn ==
    /\ pc = "cache"
    /\ phase = "start"
    /\ started' = Append(started, "cache")
    /\ items' = <<>>
    /\ UNCHANGED <<calls, created, collected, defined, typeIdx, pathBudget,
                   aovBudget>>
    /\ \/ /\ trace' = << Ev("apps.get", 0, NoPath, FALSE), Log("debug"),
                         Ev("get_nodes", 0, NoPath, FALSE), Log("warning") >>
          /\ Return("cache")
          /\ UNCHANGED budget
       \/ /\ trace' = << Ev("apps.get", 0, NoPath, TRUE),
                         Ev("get_nodes", 0, NoPath, FALSE),
                         Log("warning") >>
          /\ Return("cache")
          /\ UNCHANGED budget
       \/ \E n \in 0..budget, wt \in Templates, pt \in Templates :
            /\ trace' = << Ev("apps.get", 0, NoPath, TRUE),
                           Ev("get_nodes", n, NoPath, TRUE),
                           Ev("get_work_file_template", 0, NoPath, TRUE),
                           Ev("get_publish_file_template", 0, NoPath, TRUE) >>
            /\ budget' = budget - n
            /\ IF n = 0 THEN Return("cache")
               ELSE EnterLoop("cache", n, wt, pt, <<0, 0>>)

\* lines 214-244: collect_tk_cachenodes before its loop
collect_tk_cachenodes ==
    /\ pc = "cache"
    /\ phase = "start"
    /\ started' = Append(started, "cache")
    /\ items' = <<>>
    /\ UNCHANGED <<calls, created, collected, defined, typeIdx, pathBudget,
                   aovBudget>>
    /\ \/ \* engine.apps.get(...) answers None
          /\ trace' = << Ev("apps.get", 0, NoPath, FALSE), Log("debug") >>
          /\ Return("cache")
          /\ UNCHANGED budget
       \/ \* get_nodes() raises AttributeError
          /\ trace' = << Ev("apps.get", 0, NoPath, TRUE),
                         Ev("get_nodes", 0, NoPath, FALSE),
                         Log("warning") >>
          /\ Return("cache")
          /\ UNCHANGED budget
       \/ \E n \in 0..budget, wt \in Templates, pt \in Templates :
            /\ trace' = << Ev("apps.get", 0, NoPath, TRUE),
                           Ev("get_nodes", n, NoPath, TRUE),
                           Ev("get_work_file_template", 0, NoPath, TRUE),
                           Ev("get_publish_file_template", 0, NoPath, TRUE) >>
            /\ budget' = budget - n
            /\ IF n = 0 THEN Return("cache")
               ELSE EnterLoop("cache", n, wt, pt, <<0, 0>>)

\* lines 284-308: collect_tk_usdropnodes before its loop; get_nodes() is
\* called outside any try statement
collect_tk_usdropnodes ==
    /\ pc = "usdrop"
    /\ phase = "start"
    /\ started' = Append(started, "usdrop")
    /\ items' = <<>>
    /\ UNCHANGED <<calls, created, collected, defined, typeIdx, pathBudget,
                   aovBudget>>
    /\ \/ \* engine.apps.get(...) answers None
          /\ trace' = << Ev("apps.get", 0, NoPath, FALSE), Log("debug") >>
          /\ Return("usdrop")
          /\ UNCHANGED budget
       \/ \* get_nodes() raises AttributeError
          /\ trace' = << Ev("apps.get", 0, NoPath, TRUE),
                         Ev("get_nodes", 0, NoPath, FALSE) >>
          /\ Raise
          /\ UNCHANGED budget
       \/ \E n \in 0..budget, wt \in Templates, pt \in Templates :
            /\ trace' = << Ev("apps.get", 0, NoPath, TRUE),
                           Ev("get_nodes", n, NoPath, TRUE),
                           Ev("get_work_file_template", 0, NoPath, TRUE),
                           Ev("get_publish_file_template", 0, NoPath, TRUE) >>
            /\ budget' = budget - n
            /\ IF n = 0 THEN Return("usdrop")
               ELSE EnterLoop("usdrop", n, wt, pt, <<0, 0>>)

\* lines 268-282 (336-350): the template properties of a cache or usdrop item
TemplateProps(item, wt, pt) ==
    LET a == IF wt # "None" THEN SetProp(item, "work_template", wt) ELSE item
    IN  IF pt # "None" THEN SetProp(a, "publish_template", pt) ELSE a

\* lines 268-282 (336-350): the messages logged with them
TemplateLogs(wt, pt) ==
    << IF wt # "None" THEN Log("info") ELSE Log("warning"),
       IF pt # "None" THEN Log("info") ELSE Log("warning") >>

\* UnflaggedNode without the `continue` after the warning
UnflaggedNode_NoContinue(r) ==
    /\ pc = r
    /\ phase = "loop"
    /\ UNCHANGED <<calls, collected, defined, typeIdx, budget, pathBudget,
                   aovBudget, started>>
    /\ \E exists \in BOOLEAN :
         LET out_path == OutPath(idx)
         IN  /\ trace' = trace \o
                   << Ev("get_output_path", idx, out_path, TRUE),
                      Log("debug"),
                      Ev("exists", idx, out_path, exists) >>
                   \o (IF exists THEN <<>> ELSE << Log("warning") >>)
                   \o << Log("info"),
                         Ev("_collect_file", idx, out_path, TRUE) >>
                   \o TemplateLogs(work_template, publish_template)
             /\ items' = Append(items,
                   TemplateProps(
                       CollectFile(NextId, SessionItem, r, idx, out_path),
                       work_template, publish_template))
             /\ created' = Made(r, 1)
    /\ NextNode(r)

\* one iteration of the node loop of collect_tk_cachenodes / _usdropnodes
UnflaggedNode(r) ==
    /\ pc = r
    /\ phase = "loop"
    /\ UNCHANGED <<calls, collected, defined, typeIdx, budget, pathBudget,
                   aovBudget, started>>
    /\ LET out_path == OutPath(idx)
       IN  \/ \* os.path.exists(out_path) is False
              /\ trace' = trace \o << Ev("get_output_path", idx, out_path, TRUE),
                                      Log("debug"),
                                      Ev("exists", idx, out_path, FALSE),
                                      Log("warning") >>
              /\ UNCHANGED <<items, created>>
           \/ \* os.path.exists(out_path) is True
              /\ trace' = trace \o
                    << Ev("get_output_path", idx, out_path, TRUE),
                       Log("debug"),
                       Ev("exists", idx, out_path, TRUE),
                       Log("info"),
                       Ev("_collect_file", idx, out_path, TRUE) >>
                    \o TemplateLogs(work_template, publish_template)
              /\ items' = Append(items,
                    TemplateProps(
                        CollectFile(NextId, SessionItem, r, idx, out_path),
                        work_template, publish_template))
              /\ created' = Made(r, 1)
    /\ NextNode(r)

\* lines 246-282
collect_tk_cachenodes_loop == UnflaggedNode("cache")
\* lines 310-350
collect_tk_usdropnodes_loop == UnflaggedNode("usdrop")

\* ------------------------------------------------------------ arnold routine
\* the enable parameters app.handler.getDifferentFileAOVs(node) may answer:
\* parameter k carries its enable value and, when enabled, the label
\* ar_aov_label<k> and whether the file ar_aov_separate_file<k> is on disk
AovParm == { [enabled |-> FALSE, label |-> "", exists |-> FALSE] } \cup
           [enabled : {TRUE}, label : AovLabels, exists : BOOLEAN]
AovParmLists(max) == UNION { [1..k -> AovParm] : k \in 0..max }

\* node.parm("ar_aov_separate_file%s" % parmNumber).eval()
AovFile(k) == <<"aov", Str(k), "exr">>

RECURSIVE AovDict(_, _)
\* lines 599-605: the dict aovs after the first k parameters, in insertion
\* order; an enabled parameter whose label is already a key replaces the file
AovDict(parms, k) ==
    IF k = 0 THEN <<>>
    ELSE LET d == AovDict(parms, k - 1)
             same == { j \in DOMAIN d : d[j].label = parms[k].label }
         IN  IF ~parms[k].enabled THEN d
             ELSE IF same # {}
             THEN [j \in DOMAIN d |->
                      IF j \in same THEN [label |-> d[j].label, parm |-> k]
                      ELSE d[j]]
             ELSE Append(d, [label |-> parms[k].label, parm |-> k])

RECURSIVE AovItems(_, _, _, _, _, _)
\* lines 607-625: the items of the first j entries of aovs.items(), children
\* of the beauty item `parent`
AovItems(d, parms, j, parent, node, wt) ==
    IF j = 0 THEN <<>>
    ELSE LET rest == AovItems(d, parms, j - 1, parent, node, wt)
             item == [CollectFile(parent + Len(rest) + 1, parent, "arnold_aov",
                                  node, AovFile(d[j].parm))
                         EXCEPT !.label = d[j].label]
         IN  IF ~parms[d[j].parm].exists THEN rest
             ELSE Append(rest, IF wt # "None"
                               THEN SetProp(item, "work_template", wt)
                               ELSE item)

RECURSIVE AovTrace(_, _, _, _)
\* lines 607-625: the environment calls of the first j entries of aovs.items()
AovTrace(d, parms, j, node) ==
    IF j = 0 THEN <<>>
    ELSE AovTrace(d, parms, j - 1, node) \o
         (IF ~parms[d[j].parm].exists
          THEN << Ev("exists", node, AovFile(d[j].parm), FALSE) >>
          ELSE << Ev("exists", node, AovFile(d[j].parm), TRUE),
                  Ev("_collect_file", node, AovFile(d[j].parm), TRUE),
                  Log("info") >>)

\* lines 526-558: collect_tk_arnoldnodes before its loop
collect_tk_arnoldnodes ==
    /\ pc = "arnold"
    /\ phase = "start"
    /\ started' = Append(started, "arnold")
    /\ items' = <<>>
    /\ UNCHANGED <<calls, created, collected, defined, typeIdx, pathBudget,
                   aovBudget>>
    /\ \/ \* engine.apps.get(...) answers None
          /\ trace' = << Ev("apps.get", 0, NoPath, FALSE), Log("debug") >>
          /\ Return("arnold")
          /\ UNCHANGED budget
       \/ \* os.getenv("HTOA") answers None
          /\ trace' = << Ev("apps.get", 0, NoPath, TRUE),
                         Ev("getenv", 0, NoPath, FALSE), Log("debug") >>
          /\ Return("arnold")
          /\ UNCHANGED budget
       \/ \* getNodes() raises: the except clause logs and falls through, and
          \* `nodes` is unbound when the for statement reads it
          /\ trace' = << Ev("apps.get", 0, NoPath, TRUE),
                         Ev("getenv", 0, NoPath, TRUE),
                         Ev("get_nodes", 0, NoPath, FALSE),
                         Log("error"),
                         Ev("get_work_file_template", 0, NoPath, TRUE),
                         Ev("get_publish_file_template", 0, NoPath, TRUE),
                         Ev("playbackRange", 0, NoPath, TRUE) >>
          /\ Raise
          /\ UNCHANGED budget
       \/ \E n \in 0..budget, wt \in Templates, pt \in Templates :
            /\ trace' = << Ev("apps.get", 0, NoPath, TRUE),
                           Ev("getenv", 0, NoPath, TRUE),
                           Ev("get_nodes", n, NoPath, TRUE),
                           Ev("get_work_file_template", 0, NoPath, TRUE),
                           Ev("get_publish_file_template", 0, NoPath, TRUE),
                           Ev("playbackRange", 0, NoPath, TRUE) >>
            /\ budget' = budget - n
            /\ IF n = 0 THEN Return("arnold")
               ELSE EnterLoop("arnold", n, wt, pt, PlaybackRange)

\* lines 561-591 with 593-625: one iteration of `for node in nodes`
collect_tk_arnoldnodes_loop ==
    /\ pc = "arnold"
    /\ phase = "loop"
    /\ UNCHANGED <<calls, defined, typeIdx, budget, pathBudget, started>>
    /\ LET out_path == OutPath(idx)
       IN  \/ \* os.path.exists(out_path) is False
              /\ trace' = trace \o << Ev("get_output_path", idx, out_path, TRUE),
                                      Ev("exists", idx, out_path, FALSE) >>
              /\ UNCHANGED <<items, created, collected, aovBudget>>
           \/ \* os.path.exists(out_path) is True
              \E parms \in AovParmLists(aovBudget) :
                LET beauty == NextId
                    d == AovDict(parms, Len(parms))
                    aovs == AovItems(d, parms, Len(d), beauty, idx, work_template)
                    item ==
                      SetProp(SetProp(SetProp(SetProp(
                          CollectFile(beauty, SessionItem, "arnold", idx, out_path),
                          "work_template", work_template),
                          "publish_template", publish_template),
                          "first_frame", frame_range[1]),
                          "last_frame", frame_range[2])
                IN  /\ trace' = trace \o
                          << Ev("get_output_path", idx, out_path, TRUE),
                             Ev("exists", idx, out_path, TRUE),
                             Log("info"),
                             Ev("_collect_file", idx, out_path, TRUE),
                             Log("info"),
                             Ev("getDifferentFileAOVs", idx, NoPath, TRUE) >>
                          \o AovTrace(d, parms, Len(d), idx)
                    /\ items' = Append(items, item) \o aovs
                    /\ created' = [created EXCEPT
                          !["arnold"] = @ + 1, !["arnold_aov"] = @ + Len(aovs)]
                    /\ aovBudget' = aovBudget - Len(parms)
                    /\ collected' = [collected EXCEPT !["arnold"] = TRUE]
    /\ NextNode("arnold")

\* ------------------------------------------------ renderman / karma routines
\* one element of app.get_output_paths(node), with what os.path.exists
\* answers for its first frame
PathEntry == [path : RenderPaths, exists : BOOLEAN]
PathEntryLists(max) == UNION { [1..k -> PathEntry] : k \in 0..max }

\* lines 695-732 (834-871): the item of one output path, fully decorated
RenderItem(id, by, node, path, wt, rt, fr) ==
    [ [CollectFile(id, SessionItem, by, node, path)
          EXCEPT !.type = "file.sequence"]
        EXCEPT !.props = ("work_template" :> wt) @@ ("publish_template" :> rt)
                      @@ ("first_frame" :> fr[1]) @@ ("last_frame" :> fr[2])
                      @@ ("colorspace" :> "ACES - ACEScg")
                      @@ ("publish_name" :> "name") ]

\* FirstFramePath with the last frame taken for the first
FirstFramePath_LastFrame(path, fr) == Replace(path, "$F4", Format04(fr[2]))

\* line 685 (824): output_path.replace("$F4", f"{first_frame:04}")
FirstFramePath(path, fr) == Replace(path, "$F4", Format04(fr[1]))

RECURSIVE RenderOutputs(_, _, _, _, _, _, _, _, _)
\* lines 677-738 (816-874): `for output_path in output_paths`, after the first
\* j elements.  render_template.get_fields raises when render_template is None,
\* after _collect_file has created the item.  The first item gets number id.
RenderOutputs(id, by, entries, j, node, published, wt, rt, fr) ==
    IF j = 0
    THEN [items |-> <<>>, trace |-> <<>>, flag |-> FALSE, raised |-> FALSE]
    ELSE LET r == RenderOutputs(id, by, entries, j - 1, node, published, wt,
                                rt, fr)
             e == entries[j]
             tested == FirstFramePath(e.path, fr)
         IN  IF r.raised \/ EndsWithXml(e.path) THEN r
             ELSE IF ~e.exists
             THEN [r EXCEPT !.trace = @ \o << Ev("exists", node, tested, FALSE) >>]
             ELSE IF published
             THEN [r EXCEPT !.trace = @ \o
                      << Ev("exists", node, tested, TRUE),
                         Ev("get_published_status", node, NoPath, TRUE) >>]
             ELSE IF rt = "None"
             THEN [items |-> Append(r.items,
                      [CollectFile(id + Len(r.items), SessionItem, by, node,
                                   e.path)
                          EXCEPT !.type = "file.sequence"]),
                   trace |-> r.trace \o
                      << Ev("exists", node, tested, TRUE),
                         Ev("get_published_status", node, NoPath, FALSE),
                         Log("info"),
                         Ev("_collect_file", node, e.path, TRUE),
                         Ev("get_fields", node, e.path, FALSE) >>,
                   flag |-> r.flag,
                   raised |-> TRUE]
             ELSE [items |-> Append(r.items,
                      RenderItem(id + Len(r.items), by, node, e.path, wt, rt,
                                 fr)),
                   trace |-> r.trace \o
                      << Ev("exists", node, tested, TRUE),
                         Ev("get_published_status", node, NoPath, FALSE),
                         Log("info"),
                         Ev("_collect_file", node, e.path, TRUE),
                         Ev("get_fields", node, e.path, TRUE),
                         Log("info") >>,
                   flag |-> TRUE,
                   raised |-> FALSE]

\* lines 627-660: collect_tk_rendermannodes before its loop
collect_tk_rendermannodes ==
    /\ pc = "renderman"
    /\ phase = "start"
    /\ started' = Append(started, "renderman")
    /\ items' = <<>>
    /\ UNCHANGED <<calls, created, collected, defined, typeIdx, pathBudget,
                   aovBudget>>
    /\ \/ \* engine.apps.get(...) answers None
          /\ trace' = << Ev("apps.get", 0, NoPath, FALSE), Log("debug") >>
          /\ Return("renderman")
          /\ UNCHANGED budget
       \/ \* os.getenv("RMANTREE") answers None
          /\ trace' = << Ev("apps.get", 0, NoPath, TRUE),
                         Ev("getenv", 0, NoPath, FALSE), Log("debug") >>
          /\ Return("renderman")
          /\ UNCHANGED budget
       \/ \* get_all_renderman_nodes() raises
          /\ trace' = << Ev("apps.get", 0, NoPath, TRUE),
                         Ev("getenv", 0, NoPath, TRUE),
                         Ev("get_nodes", 0, NoPath, FALSE),
                         Log("error") >>
          /\ Return("renderman")
          /\ UNCHANGED budget
       \/ \E n \in 0..budget, wt \in Templates, rt \in Templates :
            /\ trace' = << Ev("apps.get", 0, NoPath, TRUE),
                           Ev("getenv", 0, NoPath, TRUE),
                           Ev("get_nodes", n, NoPath, TRUE),
                           Ev("get_work_file_template", 0, NoPath, TRUE),
                           Ev("get_publish_file_template", 0, NoPath, TRUE) >>
            /\ budget' = budget - n
            /\ IF n = 0 THEN Return("renderman")
               ELSE EnterLoop("renderman", n, wt, rt, <<0, 0>>)

\* what the app answers about one node: whether get_output_range and
\* get_output_paths succeed, the paths with what os.path.exists answers for
\* their first frame, and get_published_status; a query that fails has no value
NodeAnswers(max) ==
    { [range_ok |-> FALSE, paths_ok |-> po, published |-> FALSE,
       entries |-> <<>>] : po \in BOOLEAN } \cup
    { [range_ok |-> TRUE, paths_ok |-> FALSE, published |-> FALSE,
       entries |-> <<>>] } \cup
    { [range_ok |-> TRUE, paths_ok |-> TRUE, published |-> pb, entries |-> e] :
         pb \in BOOLEAN, e \in PathEntryLists(max) }

\* lines 663-738: the body of `for node in nodes` of collect_tk_rendermannodes
\* for the answers a; the frame range is queried first and outside the try
\* statement
RendermanNode(a) ==
    IF ~a.range_ok
    THEN [items |-> <<>>, flag |-> FALSE, raised |-> TRUE,
          trace |-> << Ev("get_output_range", idx, NoPath, FALSE) >>]
    ELSE IF ~a.paths_ok
    THEN [items |-> <<>>, flag |-> FALSE, raised |-> FALSE,
          trace |-> << Ev("get_output_range", idx, NoPath, TRUE),
                       Ev("get_output_paths", idx, NoPath, FALSE),
                       Log("error") >>]
    ELSE LET r == RenderOutputs(NextId, "renderman", a.entries, Len(a.entries),
                                idx, a.published, work_template,
                                publish_template, OutputRange(idx))
         IN  [r EXCEPT !.trace =
                 << Ev("get_output_range", idx, NoPath, TRUE),
                    Ev("get_output_paths", idx, NoPath, TRUE) >> \o @]

\* lines 663-738: one iteration of `for node in nodes`
collect_tk_rendermannodes_loop ==
    /\ pc = "renderman"
    /\ phase = "loop"
    /\ UNCHANGED <<calls, defined, typeIdx, budget, aovBudget, started>>
    /\ \E a \in NodeAnswers(pathBudget) :
         LET o == RendermanNode(a)
         IN  /\ trace' = trace \o o.trace
             /\ items' = items \o o.items
             /\ pathBudget' = pathBudget - Len(a.entries)
             /\ created' = Made("renderman", Len(o.items))
             /\ collected' = [collected EXCEPT !["renderman"] = @ \/ o.flag]
             /\ IF o.raised THEN Raise ELSE NextNode("renderman")

\* lines 774-799: collect_tk_karmanodes before its loop
collect_tk_karmanodes ==
    /\ pc = "karma"
    /\ phase = "start"
    /\ started' = Append(started, "karma")
    /\ items' = <<>>
    /\ UNCHANGED <<calls, created, collected, defined, typeIdx, pathBudget,
                   aovBudget>>
    /\ \/ \* engine.apps.get(...) answers None
          /\ trace' = << Ev("apps.get", 0, NoPath, FALSE), Log("debug") >>
          /\ Return("karma")
          /\ UNCHANGED budget
       \/ \* get_all_karma_nodes() raises
          /\ trace' = << Ev("apps.get", 0, NoPath, TRUE),
                         Ev("get_nodes", 0, NoPath, FALSE),
                         Log("error") >>
          /\ Return("karma")
          /\ UNCHANGED budget
       \/ \E n \in 0..budget, wt \in Templates, rt \in Templates :
            /\ trace' = << Ev("apps.get", 0, NoPath, TRUE),
                           Ev("get_nodes", n, NoPath, TRUE),
                           Ev("get_work_file_template", 0, NoPath, TRUE),
                           Ev("get_publish_file_template", 0, NoPath, TRUE) >>
            /\ budget' = budget - n
            /\ IF n = 0 THEN Return("karma")
               ELSE EnterLoop("karma", n, wt, rt, <<0, 0>>)

\* lines 802-874: the body of `for node in nodes` of collect_tk_karmanodes for
\* the answers a; the output paths are queried first, inside the try
\* statement, the frame range after it
KarmaNode(a) ==
    IF ~a.paths_ok
    THEN [items |-> <<>>, flag |-> FALSE, raised |-> FALSE,
          trace |-> << Ev("get_output_paths", idx, NoPath, FALSE),
                       Log("error") >>]
    ELSE IF ~a.range_ok
    THEN [items |-> <<>>, flag |-> FALSE, raised |-> TRUE,
          trace |-> << Ev("get_output_paths", idx, NoPath, TRUE),
                       Ev("get_output_range", idx, NoPath, FALSE) >>]
    ELSE LET r == RenderOutputs(NextId, "karma", a.entries, Len(a.entries),
                                idx, a.published, work_template,
                                publish_template, OutputRange(idx))
         IN  [r EXCEPT !.trace =
                 << Ev("get_output_paths", idx, NoPath, TRUE),
                    Ev("get_output_range", idx, NoPath, TRUE) >> \o @]

\* lines 802-874: one iteration of `for node in nodes`
collect_tk_karmanodes_loop ==
    /\ pc = "karma"
    /\ phase = "loop"
    /\ UNCHANGED <<calls, defined, typeIdx, budget, aovBudget, started>>
    /\ \E a \in NodeAnswers(pathBudget) :
         LET o == KarmaNode(a)
         IN  /\ trace' = trace \o o.trace
             /\ items' = items \o o.items
             /\ pathBudget' = pathBudget - Len(a.entries)
             /\ created' = Made("karma", Len(o.items))
             /\ collected' = [collected EXCEPT !["karma"] = @ \/ o.flag]
             /\ IF o.raised THEN Raise ELSE NextNode("karma")

\* ----------------------------------------------------- collect_node_outputs
\* SkipFlag that lets the fbx flag decide about the ifd nodes as well
SkipFlag_IfdByFbx(node_type) ==
    CASE node_type = "alembic" -> collected["alembic"]
      [] node_type = "fbx"     -> collected["fbx"]
      [] node_type = "ifd"     -> collected["fbx"]
      [] OTHER                 -> FALSE

\* the flag that makes collect_node_outputs skip a node type (lines 162-181)
SkipFlag(node_type) ==
    CASE node_type = "alembic" -> collected["alembic"]
      [] node_type = "fbx"     -> collected["fbx"]
      [] node_type = "ifd"     -> collected["mantra"]
      [] OTHER                 -> FALSE

\* the loop over node types moves on, or collect_node_outputs returns
NextType ==
    IF typeIdx + 1 < Len(HOUDINI_OUTPUTS)
    THEN /\ pc' = "outputs"
         /\ phase' = "start"
         /\ nodes' = 0
         /\ idx' = 0
         /\ UNCHANGED <<work_template, publish_template, frame_range>>
    ELSE Return("outputs")

\* lines 160-188: one iteration of `for node_type in ...` up to its node loop
collect_node_outputs ==
    /\ pc = "outputs"
    /\ phase = "start"
    /\ typeIdx' = typeIdx + 1
    /\ started' = IF typeIdx = 0 THEN Append(started, "outputs") ELSE started
    /\ items' = <<>>
    /\ UNCHANGED <<calls, created, collected, defined, pathBudget, aovBudget>>
    /\ LET node_type == HOUDINI_OUTPUTS[typeIdx + 1]
       IN  \/ \* the matching tk nodes were collected
              /\ SkipFlag(node_type)
              /\ trace' = << Log("debug") >>
              /\ NextType
              /\ UNCHANGED budget
           \/ \* hou.nodeType(node_category, node_type) answers None
              /\ ~SkipFlag(node_type)
              /\ trace' = << Ev("nodeType", typeIdx + 1, NoPath, FALSE) >>
              /\ NextType
              /\ UNCHANGED budget
           \/ \* instances() answers n nodes
              /\ ~SkipFlag(node_type)
              /\ \E n \in 0..budget :
                   /\ trace' = << Ev("nodeType", typeIdx + 1, NoPath, TRUE),
                                  Ev("instances", typeIdx + 1, NoPath, TRUE) >>
                   /\ budget' = budget - n
                   /\ IF n = 0 THEN NextType
                      ELSE /\ pc' = "outputs"
                           /\ phase' = "loop"
                           /\ nodes' = n
                           /\ idx' = 1
                           /\ UNCHANGED <<work_template, publish_template,
                                          frame_range>>

\* lines 191-212: one iteration of `for node in nodes`
collect_node_outputs_loop ==
    /\ pc = "outputs"
    /\ phase = "loop"
    /\ UNCHANGED <<calls, collected, defined, budget, pathBudget, aovBudget,
                   started>>
    /\ LET path == OutPath(idx)
       IN  \/ \* os.path.exists(path) is False
              /\ trace' = trace \o << Ev("parm.eval", idx, path, TRUE),
                                      Ev("exists", idx, path, FALSE) >>
              /\ UNCHANGED <<items, created>>
           \/ \* os.path.exists(path) is True
              /\ trace' = trace \o << Ev("parm.eval", idx, path, TRUE),
                                      Ev("exists", idx, path, TRUE),
                                      Log("info"),
                                      Ev("_collect_file", idx, path, TRUE) >>
              /\ items' = Append(items,
                    CollectFile(NextId, SessionItem,
                                "rop_" \o HOUDINI_OUTPUTS[typeIdx], idx, path))
              /\ created' = Made("rop_" \o HOUDINI_OUTPUTS[typeIdx], 1)
    /\ IF idx < nodes
       THEN /\ idx' = idx + 1
            /\ UNCHANGED <<pc, phase, nodes, typeIdx, work_template,
                           publish_template, frame_range>>
       ELSE /\ UNCHANGED typeIdx
            /\ IF typeIdx < Len(HOUDINI_OUTPUTS)
               THEN /\ pc' = "outputs"
                    /\ phase' = "start"
                    /\ nodes' = 0
                    /\ idx' = 0
                    /\ UNCHANGED <<work_template, publish_template, frame_range>>
               ELSE Return("outputs")

\* ===================================================================
\* Properties
\* ===================================================================
TkRoutines == {"alembic", "fbx", "mantra", "arnold", "renderman", "karma",
               "cache", "usdrop"}
LogOps == {"logger.debug", "logger.info", "logger.warning", "logger.error"}
AccessorOps == {"get_nodes", "get_work_file_template",
                "get_publish_file_template", "get_output_path",
                "get_output_range", "get_output_paths",
                "get_published_status", "getDifferentFileAOVs", "get_fields"}
\* the routine entered last, "" before the first one of a call
Current == IF started = <<>> THEN "" ELSE started[Len(started)]
\* positions of the events of the trace with operation op
At(op) == { j \in DOMAIN trace : trace[j].op = op }
\* the existence checks of the trace that succeeded
Passed == { j \in At("exists") : trace[j].ok }

\* C1 (as stated): every item other than the session item is backed by the
\* very path that passed os.path.exists before it was created, in every
\* routine, the RenderMan and Karma ones included.
C1_SamePathTested ==
    \A k \in DOMAIN items :
        items[k].type # "houdini.session" =>
            \E j \in Passed : trace[j].path = items[k].path

\* C1 (amended): every item other than the session item is backed by a path
\* whose existence check succeeded, where the RenderMan and Karma routines
\* test the path with "$F4" replaced by the zero-padded first frame of the
\* node and every other routine tests the path itself.
C1_TestedPathBacksItem ==
    \A k \in DOMAIN items :
        items[k].type # "houdini.session" =>
            \E j \in Passed :
                /\ trace[j].node = items[k].node
                /\ trace[j].path =
                     IF items[k].by \in {"renderman", "karma"}
                     THEN Replace(items[k].path, "$F4",
                                  Format04(OutputRange(items[k].node)[1]))
                     ELSE items[k].path

\* a RenderMan item whose path carries the frame pattern, and an item of
\* another routine, have been collected
C1_Witness ==
    /\ \E k \in DOMAIN items :
          items[k].by = "renderman" /\ items[k].path = <<"beauty", "$F4", "exr">>
    /\ created["alembic"] > 0

\* C2: process_current_session never leaves through an exception.
C2_NoExceptionPropagates == pc # "raised"

\* C3: an installed integration whose node-list query fails logs a warning,
\* creates no item, sets no flag, touches no node, and control reaches the
\* next routine.
C3_QueryFailureAborts ==
    (\E j \in At("get_nodes") : ~trace[j].ok) =>
        /\ At("logger.warning") # {}
        /\ At("logger.error") = {}
        /\ pc = Successor(Current)
        /\ items = <<>>
        /\ created[Current] = 0
        /\ Current \in Flagged => ~collected[Current]
        /\ \A j \in DOMAIN trace : trace[j].op = "get_nodes" \/ trace[j].node = 0

\* C4: a toolkit routine whose app is not installed logs one debug message
\* and returns: it calls no accessor, creates no item, changes no flag, and
\* control reaches the next routine.
C4_NotInstalledSkips ==
    [][ ( /\ pc \in TkRoutines
          /\ phase = "start"
          /\ trace'[1] = Ev("apps.get", 0, NoPath, FALSE) )
        => ( /\ trace' = << Ev("apps.get", 0, NoPath, FALSE), Log("debug") >>
             /\ items' = <<>>
             /\ created' = created
             /\ collected' = collected
             /\ pc' = Successor(pc) ) ]_vars

\* the Arnold app is not installed and control is at the RenderMan routine
C4_Witness ==
    /\ Current = "arnold"
    /\ pc = "renderman"
    /\ trace = << Ev("apps.get", 0, NoPath, FALSE), Log("debug") >>

\* C5 (as stated): in every routine, a failed existence check is followed
\* neither by a log message nor by the creation of an item.
C5_MissingSkippedSilently ==
    \A j \in At("exists") :
        (~trace[j].ok /\ j < Len(trace)) =>
            trace[j + 1].op \notin LogOps \cup {"_collect_file"}

\* C5 (amended): a failed existence check is never followed by the creation
\* of an item; it is followed by no log message, except in the cache and
\* usdrop routines, which log exactly one warning.
C5_MissingSkipped ==
    \A j \in At("exists") :
        ~trace[j].ok =>
            IF Current \in {"cache", "usdrop"}
            THEN /\ j < Len(trace)
                 /\ trace[j + 1] = Log("warning")
                 /\ j + 1 < Len(trace) =>
                       trace[j + 2].op \notin LogOps \cup {"_collect_file"}
            ELSE j < Len(trace) =>
                     trace[j + 1].op \notin LogOps \cup {"_collect_file"}

\* a node without output was skipped and a later node of the list processed,
\* in a silent routine; and the cache routine skipped one with its warning
C5_Witness ==
    \/ /\ Current = "mantra"
       /\ \E j \in At("exists") : ~trace[j].ok /\ j < Len(trace)
    \/ /\ Current = "cache"
       /\ \E j \in At("exists") : ~trace[j].ok

\* C6: in the alembic, fbx, mantra, cache and usdrop routines, once the node
\* query has answered, the items created are exactly one per node whose
\* output path exists and none for any other node; when the routine has
\* returned, every node of the answered list has been looked at.
C6_OneItemPerExistingOutput ==
    (Current \in {"alembic", "fbx", "mantra", "cache", "usdrop"}
        /\ \E j \in At("get_nodes") : trace[j].ok) =>
      LET n == trace[CHOOSE j \in At("get_nodes") : TRUE].node
          seen == { trace[j].node : j \in At("exists") }
          existing == { trace[j].node : j \in Passed }
      IN  /\ Len(items) = Cardinality(existing)
          /\ created[Current] = Cardinality(existing)
          /\ \A k \in 1..n :
                Cardinality({ i \in DOMAIN items :
                                items[i].node = k /\ items[i].by = Current })
                  = IF k \in existing THEN 1 ELSE 0
          /\ Cardinality(At("exists")) = Cardinality(seen)
          /\ seen = IF pc = Current /\ phase = "loop" THEN 1..(idx - 1) ELSE 1..n

\* the cache routine has returned after two nodes, one of them with output
C6_Witness ==
    /\ Current = "cache"
    /\ pc = "usdrop"
    /\ Cardinality(At("exists")) = 2
    /\ Len(items) = 1

\* C7: in a toolkit routine the installed-check comes first and no accessor
\* is called unless it succeeded; the templates are queried after the node
\* list; a node's output path is resolved after the templates and before its
\* existence check; _collect_file is called for a node only after an
\* existence check of that node, the latest one, has succeeded.
C7_StepOrder ==
    (Current \in TkRoutines /\ trace # <<>>) =>
        /\ trace[1].op = "apps.get"
        /\ At("apps.get") = {1}
        /\ ~trace[1].ok => \A j \in DOMAIN trace : trace[j].op \notin AccessorOps
        /\ \A t \in At("get_work_file_template") \cup
                    At("get_publish_file_template") :
              \E q \in At("get_nodes") : q < t
        /\ \A p \in At("get_output_path") \cup At("get_output_paths") :
              /\ \E t \in At("get_work_file_template") : t < p
              /\ \A q \in At("get_nodes") : q < p
        /\ \A x \in At("exists") :
              \E p \in At("get_output_path") \cup At("get_output_paths") :
                  p < x /\ trace[p].node = trace[x].node
        /\ \A c \in At("_collect_file") :
              /\ \E x \in Passed : x < c /\ trace[x].node = trace[c].node
              /\ \A x \in At("exists") :
                    (x < c /\ ~trace[x].ok /\ trace[x].node = trace[c].node) =>
                        \E y \in Passed : x < y /\ y < c
                                            /\ trace[y].node = trace[c].node

\* a RenderMan node went through every step up to _collect_file
C7_Witness ==
    /\ Current = "renderman"
    /\ At("_collect_file") # {}
    /\ At("get_output_range") # {}

\* C8: in a call the session item is created first, the routines are entered
\* in the fixed order, none twice, and when the call is over every one of
\* them has been entered.
C8_FixedSequence ==
    /\ Len(started) <= Len(Routines)
    /\ \A k \in DOMAIN started : started[k] = Routines[k]
    /\ started # <<>> => created["session"] = 1
    /\ pc \in {"returned", "raised"} => started = Routines

\* C9: once a call has reset the flags, a flag is set only if the routine it
\* belongs to has created an item in this very call, whatever the calls
\* before left behind.
C9_FlagsAreFresh ==
    pc \notin {"idle", "reset"} =>
        /\ defined
        /\ \A f \in Flagged : collected[f] => created[f] > 0

\* a second call has begun while the alembic flag of the first is still set
C9_Witness ==
    /\ calls = 2
    /\ pc = "reset"
    /\ collected["alembic"]

\* C10: a call has exactly one houdini.session item, the only direct child
\* of the parent_item; every other item is a child of the session item or of
\* an item that is.
C10_OneSessionItem ==
    pc # "idle" =>
        /\ created["session"] = 1
        /\ pc = "reset" =>
              /\ Len(items) = 1
              /\ items[1].type = "houdini.session"
              /\ items[1].id = SessionItem
        /\ \A k \in DOMAIN items :
              IF items[k].type = "houdini.session"
              THEN items[k].parent = RootItem /\ k = 1 /\ started = <<>>
              ELSE /\ items[k].id > SessionItem
                   /\ \/ items[k].parent = SessionItem
                      \/ \E j \in DOMAIN items :
                            /\ items[j].id = items[k].parent
                            /\ items[j].parent = SessionItem

\* a session without file path got its item, and a call that found no
\* output at all has returned
C10_Witness ==
    \/ /\ pc = "reset"
       /\ trace[1] = Ev("hipFile.path", 0, NoPath, FALSE)
       /\ Len(items) = 1
    \/ /\ pc = "returned"
       /\ created = [c \in Creators |-> IF c = "session" THEN 1 ELSE 0]
       /\ budget = 0

\* the toolkit routine whose items make collect_node_outputs skip a node type
TkFor(node_type) ==
    CASE node_type = "alembic" -> "alembic"
      [] node_type = "fbx"     -> "fbx"
      [] node_type = "ifd"     -> "mantra"
      [] OTHER                 -> ""

\* C11: in collect_node_outputs the node types alembic, fbx and ifd are
\* skipped (one debug message, no query of the node type) exactly when the
\* matching toolkit routine has created an item in this call, and otherwise
\* the node type is queried; comp, opengl and wren are always queried.
C11_GenericSkippedIffTkItems ==
    (Current = "outputs" /\ typeIdx >= 1) =>
        LET node_type == HOUDINI_OUTPUTS[typeIdx]
            skipped == trace = << Log("debug") >>
            queried == trace # <<>> /\ trace[1].op = "nodeType"
                                   /\ trace[1].node = typeIdx
        IN  /\ skipped # queried
            /\ skipped <=> (TkFor(node_type) # "" /\ created[TkFor(node_type)] > 0)
            /\ skipped => created["rop_" \o node_type] = 0

\* the ifd nodes are skipped after the mantra routine has created an item,
\* in a call whose alembic routine was entered, created nothing, and whose
\* generic alembic nodes were collected
C11_Witness ==
    /\ Current = "outputs"
    /\ typeIdx = 4
    /\ trace = << Log("debug") >>
    /\ created["mantra"] > 0
    /\ created["alembic"] = 0
    /\ created["rop_alembic"] > 0

\* routine f has been entered in this call and has returned
Finished(f) ==
    /\ \E k \in DOMAIN started : started[k] = f
    /\ pc # f
    /\ ~(pc = "raised" /\ Current = f)

\* C12: once a flagged routine has returned to process_current_session, its
\* flag is true exactly when the routine has created an item in this call;
\* and once the call has reset the flags, no step turns a flag from true to
\* false before the next call resets them.
C12_FlagIffItems ==
    /\ [](\A f \in Flagged :
            Finished(f) => (collected[f] <=> created[f] > 0))
    /\ [][ pc # "reset" =>
              \A f \in Flagged : collected[f] => collected'[f] ]_vars

\* a call has returned in which the RenderMan routine created an item and
\* has its flag set, and the Karma routine created none and has not
C12_Witness ==
    /\ pc = "returned"
    /\ collected["renderman"] /\ created["renderman"] > 0
    /\ ~collected["karma"] /\ created["karma"] = 0
    /\ budget = 0 /\ calls = 1
    /\ created["rop_alembic"] = 0

\* what the body of a RenderMan / Karma node loop does with the answers
\* `published` and `entries` for the node it is at
NodeOutputs(published, entries) ==
    RenderOutputs(NextId, pc, entries, Len(entries), idx, published,
                  work_template, publish_template, OutputRange(idx))

\* C13: whatever a RenderMan or Karma node answers, no item is created when
\* its published status is true, no item is created for a path ending in
\* .xml, and for a node that is not published the items are one per
\* returned path that is not .xml and whose first-frame file exists.
C13_PublishedAndXmlSkipped ==
    (pc \in {"renderman", "karma"} /\ phase = "loop") =>
        \A published \in BOOLEAN, entries \in PathEntryLists(pathBudget) :
            LET r == NodeOutputs(published, entries)
                eligible == SelectSeq(entries,
                               LAMBDA e : ~EndsWithXml(e.path) /\ e.exists)
            IN  /\ published => r.items = <<>>
                /\ \A k \in DOMAIN r.items : ~EndsWithXml(r.items[k].path)
                /\ ~published =>
                      /\ Len(r.items) = Len(eligible)
                      /\ \A k \in DOMAIN r.items :
                            r.items[k].path = eligible[k].path

\* the AOV items __collect_tk_arnoldaovs creates under the beauty item of the
\* node the Arnold loop is at, when getDifferentFileAOVs answers parms
NodeAovs(parms) ==
    LET d == AovDict(parms, Len(parms))
    IN  AovItems(d, parms, Len(d), NextId, idx, work_template)

\* C14: for an Arnold node whose beauty output exists, whatever AOV
\* parameters the node has, every enabled AOV whose file is on disk gets
\* exactly one item, a child of the node's beauty item, and no other AOV
\* gets one, also when two enabled AOVs carry the same label; an AOV item
\* is only ever created under the beauty item of its own node.
C14_OneItemPerAov ==
    /\ (pc = "arnold" /\ phase = "loop") =>
          \A parms \in AovParmLists(aovBudget) :
              \A k \in DOMAIN parms :
                  Cardinality({ i \in DOMAIN NodeAovs(parms) :
                                  /\ NodeAovs(parms)[i].path = AovFile(k)
                                  /\ NodeAovs(parms)[i].parent = NextId })
                    = IF parms[k].enabled /\ parms[k].exists THEN 1 ELSE 0
    /\ \A i \in DOMAIN items :
          items[i].by = "arnold_aov" =>
              \E j \in DOMAIN items :
                  /\ items[j].by = "arnold"
                  /\ items[j].id = items[i].parent
                  /\ items[j].node = items[i].node
                  /\ \E x \in Passed : trace[x].path = items[j].path

\* what C15 asks of the failed per-node query at position j of the trace
Isolated(j) ==
    LET n == trace[CHOOSE q \in At("get_nodes") : TRUE].node
    IN  /\ j < Len(trace)
        /\ trace[j + 1] = Log("error")
        /\ \A i \in DOMAIN items : items[i].node # trace[j].node
        /\ Len(items) = Cardinality(At("_collect_file"))
        /\ j + 1 = Len(trace) =>
              IF trace[j].node < n
              THEN pc = Current /\ phase = "loop" /\ idx = trace[j].node + 1
              ELSE pc = Successor(Current)

\* C15: in the RenderMan and Karma routines a failed query of a node's
\* output paths or of its frame range is followed by an error message,
\* leaves the node without item, keeps the items of the earlier nodes, and
\* control goes on to the next node of the list (after the last node, to the
\* next routine).
C15_NodeFailureIsolated ==
    Current \in {"renderman", "karma"} =>
        \A j \in At("get_output_paths") \cup At("get_output_range") :
            ~trace[j].ok => Isolated(j)

\* an item without the name of the routine that created it
Anonymous(item) == [item EXCEPT !.by = ""]

\* C16: at every node of a RenderMan or Karma node list, whatever the app
\* answers about the node (frame range, output paths, published status, each
\* a value or a failure), the loop bodies of the two routines create the
\* same items with the same properties, set their flag alike, and agree on
\* whether they go on or raise.
C16_RendermanKarmaEquivalent ==
    (pc \in {"renderman", "karma"} /\ phase = "loop") =>
        \A a \in NodeAnswers(pathBudget) :
            LET m == RendermanNode(a)
                k == KarmaNode(a)
            IN  /\ m.raised = k.raised
                /\ m.flag = k.flag
                /\ Len(m.items) = Len(k.items)
                /\ \A i \in DOMAIN m.items :
                      Anonymous(m.items[i]) = Anonymous(k.items[i])

\* a call of process_current_session is under way
Running == pc \notin {"idle", "returned", "raised"}

\* the first call a routine makes about a node of its list
VisitOps == {"get_output_path", "get_output_range", "get_output_paths",
             "parm.eval", "getDifferentFileAOVs"}

\* C17: a call of process_current_session that has begun eventually ends,
\* by returning or by raising; and no routine asks twice about the same
\* node of its list, nor goes past the end of the list.
C17_RunsToCompletion ==
    /\ Running ~> (pc \in {"returned", "raised"})
    /\ [](\A op \in VisitOps : \A i, j \in At(op) :
              i # j => trace[i].node # trace[j].node)
    /\ [](phase = "loop" => (idx >= 1 /\ idx <= nodes))

\* a call has returned after its routines went through every node the
\* scene has, two of them in one list
C17_Witness ==
    /\ pc = "returned"
    /\ budget = 0
    /\ created["rop_wren"] = 2

\* the template properties of an item hold a template, where it has them
TemplatesDefined(item) ==
    \A key \in {"work_template", "publish_template"} \cap DOMAIN item.props :
        item.props[key] # "None"

\* C18: on every item a routine has collected under the session item, the
\* Arnold, RenderMan and Karma routines included, work_template and
\* publish_template are absent or hold a template, never None.
C18_TemplatesDefined ==
    \A k \in DOMAIN items :
        items[k].type # "houdini.session" => TemplatesDefined(items[k])

Next ==
    \/ collect_current_houdini_session
    \/ ResetFlags
    \/ collect_tk_alembicnodes
    \/ collect_tk_alembicnodes_loop
    \/ collect_tk_fbxnodes
    \/ collect_tk_fbxnodes_loop
    \/ collect_tk_mantranodes
    \/ collect_tk_mantranodes_loop
    \/ collect_tk_arnoldnodes
    \/ collect_tk_arnoldnodes_loop
    \/ collect_tk_rendermannodes
    \/ collect_tk_rendermannodes_loop
    \/ collect_tk_karmanodes
    \/ collect_tk_karmanodes_loop
    \/ collect_tk_cachenodes
    \/ collect_tk_cachenodes_loop
    \/ collect_tk_usdropnodes
    \/ collect_tk_usdropnodes_loop
    \/ collect_node_outputs
    \/ collect_node_outputs_loop

Spec == Init /\ [][Next]_vars

\* the steps of a call that has begun: everything but the caller's decision
\* to call process_current_session
Step ==
    \/ ResetFlags
    \/ collect_tk_alembicnodes
    \/ collect_tk_alembicnodes_loop
    \/ collect_tk_fbxnodes
    \/ collect_tk_fbxnodes_loop
    \/ collect_tk_mantranodes
    \/ collect_tk_mantranodes_loop
    \/ collect_tk_arnoldnodes
    \/ collect_tk_arnoldnodes_loop
    \/ collect_tk_rendermannodes
    \/ collect_tk_rendermannodes_loop
    \/ collect_tk_karmanodes
    \/ collect_tk_karmanodes_loop
    \/ collect_tk_cachenodes
    \/ collect_tk_cachenodes_loop
    \/ collect_tk_usdropnodes
    \/ collect_tk_usdropnodes_loop
    \/ collect_node_outputs
    \/ collect_node_outputs_loop

\* the interpreter runs a call that has begun to its end: the hook is
\* single-threaded and synchronous, and every query of the host answers
FairSpec == Spec /\ WF_vars(Step)
====
